---- MODULE Spec2Model ----
(***************************************************************************)
(* Model of the fs-store crate: DirStorage<T> (src/src/dir.rs), a          *)
(* HashMap<String, T> that is restored from, and stored to, one file per   *)
(* key inside a directory, through the Storable trait                      *)
(* (src/src/storable.rs).                                                  *)
(*                                                                         *)
(* File names are byte sequences (on the modelled platform a file name is  *)
(* any byte string, a key is a Rust String, i.e. valid UTF-8).  The model  *)
(* holds one DirStorage value (storage), one directory path (root, dir)    *)
(* and the record of the last call (last).                                 *)
(***************************************************************************)
EXTENDS Integers, Sequences, FiniteSets, TLC

VARIABLES storage, root, dir, last

vars == <<storage, root, dir, last>>

(***************************************************************************)
(* Bounds.                                                                 *)
(***************************************************************************)
\* The most bytes of a value that reach its file when T::store fails.
MaxCut == 0

(***************************************************************************)
(* Names, keys and values.                                                 *)
(***************************************************************************)
\* The byte of "." (dir.rs:103).
Dot == 46

\* Keys "1" and "2", the hidden key ".1", and a file name that is not UTF-8.
Key1 == <<49>>
Key2 == <<50>>
HiddenKey == <<Dot, 49>>
NonUtf8Name == <<49, 255>>

\* Keys are Strings: valid UTF-8.
Keys == {Key1, Key2, HiddenKey}
\* File names: any byte string.
Names == Keys \cup {NonUtf8Name}

\* The path the calls are given, and Path::join / Path::display of a file in it.
DirPath == "d"
JoinPath(d, name) == <<d, name>>

EmptyMap == [x \in {} |-> 0]

(***************************************************************************)
(* Result<_, Error> and Option<_>.                                         *)
(***************************************************************************)
Unit == "()"
None == [some |-> FALSE, val |-> 0]
Some(v) == [some |-> TRUE, val |-> v]

Ok(v) == [ok |-> TRUE, val |-> v, kind |-> "", arg1 |-> "", arg2 |-> ""]
\* Error::kind(arg1) or Error::kind(arg1, arg2)
Err(kind, a1, a2) == [ok |-> FALSE, val |-> Unit, kind |-> kind, arg1 |-> a1, arg2 |-> a2]

(***************************************************************************)
(* A Storable type T: bounded naturals written in decimal.                 *)
(***************************************************************************)
\* The largest value T::store accepts.
StorableMax == 20
\* The values the caller inserts.
Values == {1, 12, 30}

RECURSIVE Digits(_)
Digits(n) == IF n < 10 THEN <<48 + n>> ELSE Digits(n \div 10) \o <<48 + (n % 10)>>

Min(a, b) == IF a < b THEN a ELSE b

IsDigit(b) == b >= 48 /\ b <= 57

RECURSIVE Number(_, _)
Number(bytes, acc) ==
    IF bytes = <<>> THEN acc ELSE Number(Tail(bytes), 10 * acc + (Head(bytes) - 48))

\* T::store: the bytes that reach the writer, and the outcome.  A value above
\* StorableMax fails after `cut` bytes were written.
StorableStore(v, cut) ==
    IF v <= StorableMax
    THEN [ok |-> TRUE, bytes |-> Digits(v), msg |-> ""]
    ELSE [ok |-> FALSE, bytes |-> SubSeq(Digits(v), 1, Min(cut, Len(Digits(v)))), msg |-> "value too large"]

\* T::restore: parses the whole contents.
StorableRestore(bytes) ==
    IF bytes # <<>> /\ \A i \in DOMAIN bytes : IsDigit(bytes[i])
    THEN [ok |-> TRUE, val |-> Number(bytes, 0), msg |-> ""]
    ELSE [ok |-> FALSE, val |-> 0, msg |-> "malformed"]

\* The numbers of bytes a failing T::store may have written.
Cuts == 0 .. MaxCut

(***************************************************************************)
(* The directory.                                                          *)
(***************************************************************************)
NoEntry == [type |-> "none", data |-> <<>>, locked |-> FALSE]
SubDir == [type |-> "dir", data |-> <<>>, locked |-> FALSE]
File(data, locked) == [type |-> "file", data |-> data, locked |-> locked]

EmptyDir == [n \in Names |-> NoEntry]

\* Path::is_dir
IsDir(r) == r \in {"dir", "sealed"}

\* The contents other programs write: "", "1", "12" and "x".
EnvContents == {<<>>, <<49>>, <<49, 50>>, <<120>>}

(***************************************************************************)
(* DirStorage::restore                                                     *)
(***************************************************************************)
\* OsStr::to_str: on the bytes of Names, valid UTF-8 is ASCII.
ToStrOk(name) == \A i \in DOMAIN name : name[i] < 128

StartsWithDot(name) == Len(name) >= 1 /\ name[1] = Dot

\* A mutant of SkipName: hidden files are not skipped.
SkipNameNotHidden(name) == ~ToStrOk(name)

\* entry.file_name().to_str().map(|s| s.starts_with(".")).unwrap_or(true)
SkipName(name) == IF ToStrOk(name) THEN StartsWithDot(name) ELSE TRUE

MapInsert(m, k, v) == [x \in DOMAIN m \cup {k} |-> IF x = k THEN v ELSE m[x]]

\* A mutant of FromIoError: the error becomes an OSError, as in store_single.
FromIoErrorAsOs(e) == Err("OSError", e, "")

\* impl From<io::Error> for Error, applied by `?`: the io::Error alone.
FromIoError(e) == Err("IOError", e, "")

\* map_err(|e| Error::RestoreError(entry.path().display().to_string(), e.0))
RestoreFailure(name, msg) == Err("RestoreError", JoinPath(DirPath, name), msg)

\* A mutant of EntryKey: the key is the path of the entry.
EntryKeyPath(name) == JoinPath(DirPath, name)

\* entry.file_name().into_string().unwrap(): the name without the directory.
EntryKey(name) == name

\* A mutant of RestoreLoop: a file that cannot be opened or decoded is skipped.
RECURSIVE RestoreLoopIgnoreErrors(_, _, _, _)
RestoreLoopIgnoreErrors(d, order, i, acc) ==
    IF i > Len(order) THEN Ok(acc)
    ELSE LET name == order[i]
             e == d[name]
             r == StorableRestore(e.data)
         IN  IF e.type = "dir" \/ SkipName(name) \/ e.locked \/ ~r.ok
             THEN RestoreLoopIgnoreErrors(d, order, i + 1, acc)
             ELSE RestoreLoopIgnoreErrors(d, order, i + 1, MapInsert(acc, EntryKey(name), r.val))

\* The body of the loop over read_dir, from entry order[i] on.
RECURSIVE RestoreLoop(_, _, _, _)
RestoreLoop(d, order, i, acc) ==
    IF i > Len(order) THEN Ok(acc)
    ELSE LET name == order[i]
             e == d[name]
         IN  IF e.type = "dir" THEN RestoreLoop(d, order, i + 1, acc)
             ELSE IF SkipName(name) THEN RestoreLoop(d, order, i + 1, acc)
             ELSE IF e.locked THEN FromIoError("PermissionDenied")
             ELSE LET r == StorableRestore(e.data)
                  IN  IF ~r.ok
                      THEN RestoreFailure(name, r.msg)
                      ELSE RestoreLoop(d, order, i + 1, MapInsert(acc, EntryKey(name), r.val))

\* A mutant of RestoreFn: a path that is no directory is an error.
RestoreFnStrict(r, d, order) ==
    IF IsDir(r)
    THEN IF r = "sealed"
         THEN FromIoError("PermissionDenied")
         ELSE RestoreLoop(d, order, 1, EmptyMap)
    ELSE FromIoError("NotFound")

\* read_dir fails on a directory this process may not read.
RestoreFn(r, d, order) ==
    IF IsDir(r)
    THEN IF r = "sealed"
         THEN FromIoError("PermissionDenied")
         ELSE RestoreLoop(d, order, 1, EmptyMap)
    ELSE Ok(EmptyMap)

(***************************************************************************)
(* DirStorage::store_single and DirStorage::store                          *)
(***************************************************************************)
\* OpenOptions write+create+truncate on dir/key succeeds.
CanOpenWrite(r, d, key) == r = "dir" /\ d[key].type # "dir" /\ ~d[key].locked

\* A mutant of Written: the file is opened to append, not truncated.
WrittenAppend(e, bytes) == File(e.data \o bytes, FALSE)

\* The file after open (truncated or created) and the bytes written.
Written(e, bytes) == File(bytes, FALSE)

\* A mutant of StoreSingleFn: the file is opened before the key is looked up.
StoreSingleFnOpenFirst(r, d, s, key, cut) ==
    IF ~CanOpenWrite(r, d, key)
    THEN [res |-> Err("OSError", "could not open/create new agenda file", ""), dir |-> d]
    ELSE IF key \notin DOMAIN s
    THEN [res |-> Err("NotFound", key, ""), dir |-> [d EXCEPT ![key] = Written(d[key], <<>>)]]
    ELSE LET w == StorableStore(s[key], cut)
         IN  [res |-> IF w.ok THEN Ok(Unit)
                      ELSE Err("RestoreError", JoinPath(DirPath, key), w.msg),
              dir |-> [d EXCEPT ![key] = Written(d[key], w.bytes)]]

StoreSingleFn(r, d, s, key, cut) ==
    IF key \notin DOMAIN s
    THEN [res |-> Err("NotFound", key, ""), dir |-> d]
    ELSE IF ~CanOpenWrite(r, d, key)
    THEN [res |-> Err("OSError", "could not open/create new agenda file", ""), dir |-> d]
    ELSE LET w == StorableStore(s[key], cut)
         IN  [res |-> IF w.ok THEN Ok(Unit)
                      ELSE Err("RestoreError", JoinPath(DirPath, key), w.msg),
              dir |-> [d EXCEPT ![key] = Written(d[key], w.bytes)]]

\* A mutant of StoreLoop: after a failure the remaining keys are still stored,
\* and the first error is returned at the end.
RECURSIVE StoreLoopContinue(_, _, _, _, _, _, _)
StoreLoopContinue(r, d, s, order, i, cut, done) ==
    IF i > Len(order) THEN [res |-> Ok(Unit), dir |-> d, done |-> done, failed |-> None]
    ELSE LET one == StoreSingleFn(r, d, s, order[i], cut)
             rest == StoreLoopContinue(r, one.dir, s, order, i + 1, cut, done)
         IN  IF ~one.res.ok
             THEN [res |-> one.res, dir |-> rest.dir, done |-> done, failed |-> Some(order[i])]
             ELSE StoreLoopContinue(r, one.dir, s, order, i + 1, cut, done \cup {order[i]})

\* The loop over self.storage.keys(), from key order[i] on.
RECURSIVE StoreLoop(_, _, _, _, _, _, _)
StoreLoop(r, d, s, order, i, cut, done) ==
    IF i > Len(order) THEN [res |-> Ok(Unit), dir |-> d, done |-> done, failed |-> None]
    ELSE LET one == StoreSingleFn(r, d, s, order[i], cut)
         IN  IF ~one.res.ok
             THEN [res |-> one.res, dir |-> one.dir, done |-> done, failed |-> Some(order[i])]
             ELSE StoreLoop(r, one.dir, s, order, i + 1, cut, done \cup {order[i]})

StoreFn(r, d, s, order, cut) == StoreLoop(r, d, s, order, 1, cut, {})

(***************************************************************************)
(* Iteration orders: HashMap::keys and read_dir promise none.              *)
(***************************************************************************)
Orders(S) == {o \in [1 .. Cardinality(S) -> S] : \A i, j \in DOMAIN o : i # j => o[i] # o[j]}

Present(d) == {n \in Names : d[n].type # "none"}

(***************************************************************************)
(* The state and the record of the last call.                              *)
(***************************************************************************)
\* What a call remembers of the call before it: "store" when that call was a
\* successful store, "fresh_store" when moreover it wrote into an existing
\* empty directory, "none" otherwise.
After(l) ==
    IF l.op = "store" /\ l.res.ok
    THEN (IF l.fresh THEN "fresh_store" ELSE "store")
    ELSE "none"

Call(op, arg, res, done, failed) ==
    [op |-> op, arg |-> arg, res |-> res, done |-> done, failed |-> failed,
     fresh |-> (op = "store" /\ root = "dir" /\ dir = EmptyDir),
     after |-> After(last)]

NoCall ==
    [op |-> "new", arg |-> <<>>, res |-> Ok(Unit), done |-> {}, failed |-> None,
     fresh |-> FALSE, after |-> "none"]

\* DirStorage::default() and an existing empty directory.
Init ==
    /\ storage = EmptyMap
    /\ root = "dir"
    /\ dir = EmptyDir
    /\ last = NoCall

Restore(order) ==
    /\ last' = Call("restore", <<>>, RestoreFn(root, dir, order), {}, None)
    /\ UNCHANGED <<storage, root, dir>>

StoreSingle(key, cut) ==
    LET out == StoreSingleFn(root, dir, storage, key, cut)
    IN  /\ dir' = out.dir
        /\ last' = Call("store_single", key, out.res, {}, None)
        /\ UNCHANGED <<storage, root>>

Store(order, cut) ==
    LET out == StoreFn(root, dir, storage, order, cut)
    IN  /\ dir' = out.dir
        /\ last' = Call("store", <<>>, out.res, out.done, out.failed)
        /\ UNCHANGED <<storage, root>>

Get(k) ==
    /\ last' = Call("get", k, Ok(IF k \in DOMAIN storage THEN Some(storage[k]) ELSE None), {}, None)
    /\ UNCHANGED <<storage, root, dir>>

\* The caller writes v through the returned reference.
GetMut(k, v) ==
    /\ storage' = IF k \in DOMAIN storage THEN [storage EXCEPT ![k] = v] ELSE storage
    /\ last' = Call("get_mut", k, Ok(IF k \in DOMAIN storage THEN Some("&mut") ELSE None), {}, None)
    /\ UNCHANGED <<root, dir>>

\* A mutant of Insert: the new value is written to its file at once.
InsertWriteThrough(k, v) ==
    /\ storage' = MapInsert(storage, k, v)
    /\ dir' = StoreSingleFn(root, dir, storage', k, 0).dir
    /\ last' = Call("insert", k, Ok(IF k \in DOMAIN storage THEN Some(storage[k]) ELSE None), {}, None)
    /\ UNCHANGED root

\* HashMap::insert: the previous value under k, if any, is returned.
Insert(k, v) ==
    /\ storage' = MapInsert(storage, k, v)
    /\ last' = Call("insert", k, Ok(IF k \in DOMAIN storage THEN Some(storage[k]) ELSE None), {}, None)
    /\ UNCHANGED <<root, dir>>

ContainsKey(k) ==
    /\ last' = Call("contains_key", k, Ok(k \in DOMAIN storage), {}, None)
    /\ UNCHANGED <<storage, root, dir>>

(***************************************************************************)
(* Other programs changing the directory between two calls.                *)
(***************************************************************************)
EnvCall == Call("env", <<>>, Ok(Unit), {}, None)

\* Another program replaces what is under `name` by e.
EnvPut(name, e) ==
    /\ root = "dir"
    /\ dir[name] # e
    /\ dir' = [dir EXCEPT ![name] = e]
    /\ last' = EnvCall
    /\ UNCHANGED <<storage, root>>

\* Another program removes the directory, replaces it by a file, creates it
\* (empty), or takes away the permission to read and write it.
EnvRoot(r) ==
    /\ root # r
    /\ root' = r
    /\ dir' = IF IsDir(r) /\ IsDir(root) THEN dir ELSE EmptyDir
    /\ last' = EnvCall
    /\ UNCHANGED storage

\* What another program leaves under a name: nothing, a sub-directory, a file,
\* or a file this process may not open.
EnvEntries ==
    {NoEntry, SubDir, File(<<49>>, TRUE)} \cup {File(c, FALSE) : c \in EnvContents}

(***************************************************************************)
(* The storage and its directory: every call of DirStorage, and another    *)
(* program that removes the directory or puts a sub-directory in it.       *)
(***************************************************************************)
Next ==
    \/ \E order \in Orders(Present(dir)) : Restore(order)
    \/ \E k \in Keys, cut \in Cuts : StoreSingle(k, cut)
    \/ \E order \in Orders(DOMAIN storage), cut \in Cuts : Store(order, cut)
    \/ \E k \in Keys : Get(k)
    \/ \E k \in Keys, v \in Values : GetMut(k, v)
    \/ \E k \in Keys, v \in Values : Insert(k, v)
    \/ \E k \in Keys : ContainsKey(k)
    \/ \E n \in Keys : EnvPut(n, SubDir)
    \/ \E r \in {"absent", "dir"} : EnvRoot(r)

Spec == Init /\ [][Next]_vars

(***************************************************************************)
(* Restoring from a directory other programs wrote: any entries, restore.  *)
(***************************************************************************)
NextRestore ==
    \/ \E order \in Orders(Present(dir)) : Restore(order)
    \/ \E n \in Names, e \in EnvEntries : EnvPut(n, e)
    \/ \E r \in {"absent", "file", "dir", "sealed"} : EnvRoot(r)

SpecRestore == Init /\ [][NextRestore]_vars

(***************************************************************************)
(* Vocabulary of the properties.                                           *)
(***************************************************************************)
\* The files restore reads: not a sub-directory, a Unicode name, no leading ".".
Accepted(d) == {n \in Names : d[n].type = "file" /\ ToStrOk(n) /\ ~StartsWithDot(n)}

\* The files that are no sub-directory and whose name does not begin with ".".
NotHidden(d) == {n \in Names : d[n].type = "file" /\ ~StartsWithDot(n)}

\* A file that can be opened and whose contents T::restore accepts / rejects.
Good(d, n) == ~d[n].locked /\ StorableRestore(d[n].data).ok
Undecodable(d, n) == ~d[n].locked /\ ~StorableRestore(d[n].data).ok

\* The result is Ok(v).
IsOk(res, v) == res.ok /\ res.val = v

\* The result is Err(Error::kind(a1)) or Err(Error::kind(a1, a2)).
IsErr(res, kind, a1, a2) == ~res.ok /\ res.kind = kind /\ res.arg1 = a1 /\ res.arg2 = a2

\* Two failures with the same error.
SameErr(a, b) == ~a.ok /\ ~b.ok /\ a.kind = b.kind /\ a.arg1 = b.arg1 /\ a.arg2 = b.arg2

\* The error is of a kind that holds a path, and holds the path of file n.
NamesPath(res, n) ==
    res.kind \in {"StoreError", "RestoreError"} /\ res.arg1 = JoinPath(DirPath, n)

\* The file of key k after a successful store_single of storage s.
Stored(s, k) == File(Digits(s[k]), FALSE)

NoDotKey(s) == \A k \in DOMAIN s : ~StartsWithDot(k)

C3_Original ==
    \A f \in Accepted(dir) :
        (/\ last.op = "restore" /\ root = "dir"
         /\ dir[f].locked
         /\ \A g \in Accepted(dir) \ {f} : Good(dir, g))
            => (~last.res.ok /\ NamesPath(last.res, f))

\* C3 amended: restore then fails with Error::IOError, which holds the
\* io::Error (the reason) and no path; no storage is returned.
C3_OpenFails ==
    \A f \in Accepted(dir) :
        (/\ last.op = "restore" /\ root = "dir"
         /\ dir[f].locked
         /\ \A g \in Accepted(dir) \ {f} : Good(dir, g))
            => IsErr(last.res, "IOError", "PermissionDenied", "")

\* restore failed on a directory with one good file and one that cannot be opened.
C3_Witness ==
    /\ last.op = "restore" /\ root = "dir"
    /\ Accepted(dir) = {Key1, Key2}
    /\ Good(dir, Key1) /\ dir[Key2].locked
    /\ ~last.res.ok /\ last.res.kind = "IOError"

(***************************************************************************)
(* C4.  No directory.                                                      *)
(***************************************************************************)
\* C4: restore of a path that does not exist, or is a regular file, returns
\* Ok with an empty storage.
C4_MissingDir ==
    (last.op = "restore" /\ root \in {"absent", "file"}) => IsOk(last.res, EmptyMap)

\* restore was called on a path that does not exist.
C4_Witness == last.op = "restore" /\ root = "absent" /\ last.res.ok

C6_NotFound ==
    [][(last'.op = "store_single" /\ last'.arg \notin DOMAIN storage)
        => (/\ IsErr(last'.res, "NotFound", last'.arg, "")
            /\ dir' = dir /\ root' = root /\ storage' = storage)]_vars

\* store_single of an absent key was called on a directory that holds files.
C6_Witness ==
    /\ last.op = "store_single" /\ last.arg \notin DOMAIN storage
    /\ last.res.kind = "NotFound"
    /\ root = "dir" /\ dir[Key1].type = "file"

(***************************************************************************)
(* C7.  The error of a failed serialization.                               *)
(***************************************************************************)
\* C7: when store_single opens the file and T::store fails, the error is
\* Error::StoreError with the path dir/key and the serializer's message.
C7_StoreErrorKind ==
    (/\ last.op = "store_single"
     /\ last.arg \in DOMAIN storage
     /\ CanOpenWrite(root, dir, last.arg)
     /\ ~StorableStore(storage[last.arg], 0).ok)
        => IsErr(last.res, "StoreError", JoinPath(DirPath, last.arg),
                 StorableStore(storage[last.arg], 0).msg)

(***************************************************************************)
(* C8.  store fails fast, without rollback.                                *)
(***************************************************************************)
\* store_single of key k would succeed.
CanStore(k) == StoreSingleFn(root, dir, storage, k, 0).res.ok

\* C8: a store that fails returns the error of the store_single of one key f;
\* the keys stored before it (each of which could be stored) hold the encoding
\* of their value; every other name but f is as before; the file of f is as
\* before or holds what T::store wrote before it failed; the storage in memory
\* is unchanged.
C8_FailFast ==
    [][(last'.op = "store" /\ ~last'.res.ok)
        => /\ storage' = storage
           /\ root' = root
           /\ \E f \in DOMAIN storage : \E W \in SUBSET (DOMAIN storage \ {f}) :
                /\ ~CanStore(f)
                /\ SameErr(last'.res, StoreSingleFn(root, dir, storage, f, 0).res)
                /\ \A k \in W : CanStore(k) /\ dir'[k] = Stored(storage, k)
                /\ \A n \in Names \ (W \cup {f}) : dir'[n] = dir[n]
                /\ \E cut \in Cuts : dir'[f] = StoreSingleFn(root, dir, storage, f, cut).dir[f]]_vars

\* A store of three keys failed at its second key: one key was written before
\* the failure and one was not reached.
C8_Witness ==
    /\ last.op = "store" /\ ~last.res.ok
    /\ last.failed.some
    /\ last.done # {}
    /\ DOMAIN storage \ (last.done \cup {last.failed.val}) # {}
    /\ \A k \in last.done : dir[k] = Stored(storage, k)

(***************************************************************************)
(* C9.  store is idempotent.                                               *)
(***************************************************************************)
\* C9: a successful store that directly follows a successful store (nothing
\* inserted, nothing changed in the directory in between) leaves every file as
\* the first one left it.
C9_Idempotent ==
    [][(/\ last.op = "store" /\ last.res.ok
        /\ last'.op = "store" /\ last'.res.ok) => (dir' = dir /\ root' = root)]_vars

\* Two successful stores of a storage of two keys followed each other.
C9_Witness ==
    /\ last.op = "store" /\ last.res.ok
    /\ last.after \in {"store", "fresh_store"}
    /\ Cardinality(DOMAIN storage) >= 2
    /\ \A k \in DOMAIN storage : dir[k] = Stored(storage, k)

(***************************************************************************)
(* C10.  No write-through.                                                 *)
(***************************************************************************)
\* C10: insert, get, get_mut, contains_key and restore leave the directory as
\* it was; get returns the value in memory; a successful store_single of k, or
\* store, leaves in the file of each stored key the encoding of its value in
\* memory.
C10_NoWriteThrough ==
    [][/\ (last'.op \in {"insert", "get", "get_mut", "contains_key", "restore"})
            => (dir' = dir /\ root' = root)
       /\ (last'.op = "get")
            => IsOk(last'.res, IF last'.arg \in DOMAIN storage'
                                THEN Some(storage'[last'.arg]) ELSE None)
       /\ (last'.op = "store_single" /\ last'.res.ok)
            => dir'[last'.arg] = Stored(storage', last'.arg)
       /\ (last'.op = "store" /\ last'.res.ok)
            => \A k \in DOMAIN storage' : dir'[k] = Stored(storage', k)]_vars

\* Right after a successful store, insert replaced the value of a key: the
\* file still holds the encoding of the old value.
C10_Witness ==
    /\ last.op = "insert" /\ last.after \in {"store", "fresh_store"}
    /\ last.res.val.some
    /\ last.res.val.val # storage[last.arg]
    /\ dir[last.arg] = Stored([k \in {last.arg} |-> last.res.val.val], last.arg)

====
